---- MODULE Spec2Model ----
(***************************************************************************)
(* copper: Dataset (src/copper/core/set.py) and ModelComparison            *)
(* (src/copper/core/compare.py) as state machines.                         *)
(*                                                                         *)
(* A column name is a sequence of one-character strings, so that lower()   *)
(* and the symbol removal of fix_names are computed character by           *)
(* character.  A pandas Series is a record [index, vals] of two sequences  *)
(* of equal length; a DataFrame is a record [cols, dtype, vals] of three   *)
(* sequences of equal length, vals[i] being the cells of column i.         *)
(***************************************************************************)
EXTENDS Integers, Sequences, FiniteSets, TLC

\* ------------------------------------------------------------------------
\*                                BOUNDS
\* ------------------------------------------------------------------------

\* Largest number of columns of a frame handed to Dataset / built by
\* __setitem__.
MaxCols == 2

\* Number of rows of every frame.
NRows == 3

\* ------------------------------------------------------------------------
\*                          VALUES AND CONSTANTS
\* ------------------------------------------------------------------------

ID == "ID"
INPUT == "Input"
TARGET == "Target"
NUMBER == "Number"
REJECT == "Reject"
REJECTED == "Reject"
CATEGORY == "Category"

\* The value of an entry of a str Series that was never assigned (np.nan).
NaN == "nan"

\* A missing cell of a frame (np.nan).  Present cells are naturals.
NA == -1

RECURSIVE Factorial(_)
Factorial(n) == IF n <= 1 THEN 1 ELSE n * Factorial(n - 1)

\* A present cell c stands for the number c / Scale, so that the mean of
\* any k <= NRows cells is again a cell.
Scale == Factorial(NRows)

Range(s) == {s[i] : i \in 1..Len(s)}

UpperChars ==
    << "A", "B", "C", "D", "E", "F", "G", "H", "I", "J", "K", "L", "M",
       "N", "O", "P", "Q", "R", "S", "T", "U", "V", "W", "X", "Y", "Z" >>

LowerChars ==
    << "a", "b", "c", "d", "e", "f", "g", "h", "i", "j", "k", "l", "m",
       "n", "o", "p", "q", "r", "s", "t", "u", "v", "w", "x", "y", "z" >>

\* str.lower() on one character.
LowerChar(c) ==
    IF \E i \in 1..Len(UpperChars) : UpperChars[i] = c
    THEN LowerChars[CHOOSE i \in 1..Len(UpperChars) : UpperChars[i] = c]
    ELSE c

\* str.lower().
Lower(name) == [i \in 1..Len(name) |-> LowerChar(name[i])]

\* The column names frames are built from.
ColNames ==
    { << "i", "d" >>,
      << "t", "a", "r", "g", "e", "t" >>,
      << "T", "a", "r", "g", "e", "t" >>,
      << "T", "a", "r", " ", "g", "e", "t" >> }

\* Dataset._id_identifier
id_identifier(col_name) == Lower(col_name) \in { << "i", "d" >> }

\* _target_identifier without lower(): only the exact name 'target'.
target_identifier_exact(col_name) ==
    col_name \in { << "t", "a", "r", "g", "e", "t" >> }

\* Dataset._target_identifier
target_identifier(col_name) ==
    Lower(col_name) \in { << "t", "a", "r", "g", "e", "t" >> }

\* ------------------------------------------------------------------------
\*                          SERIES AND FRAMES
\* ------------------------------------------------------------------------

\* pd.Series(index=index, dtype=str): every entry NaN.
NewSeries(index) == [index |-> index, vals |-> [i \in 1..Len(index) |-> NaN]]

\* The positions of a label in the index of a Series.
Pos(s, label) == {i \in 1..Len(s.index) : s.index[i] = label}

\* series[label] for a label that occurs exactly once.
At(s, label) == s.vals[CHOOSE i \in Pos(s, label) : TRUE]

\* series[labels] = v, for labels of the index.
SeriesSet(s, labels, v) ==
    [s EXCEPT !.vals = [i \in 1..Len(s.vals) |->
                            IF s.index[i] \in labels THEN v ELSE s.vals[i]]]

\* series.fillna(value=v)
SeriesFillna(s, v) ==
    [s EXCEPT !.vals = [i \in 1..Len(s.vals) |->
                            IF s.vals[i] = NaN THEN v ELSE s.vals[i]]]

\* The positions of a column label in a frame.
FramePos(f, label) == {i \in 1..Len(f.cols) : f.cols[i] = label}

\* frame[cols] for a list of labels: the columns with those labels, in the
\* order of the list.
RECURSIVE PosSeq(_, _)
PosSeq(f, labels) ==
    IF labels = << >> THEN << >>
    ELSE LET here == SelectSeq([i \in 1..Len(f.cols) |-> i],
                               LAMBDA i : f.cols[i] = Head(labels))
         IN here \o PosSeq(f, Tail(labels))

FrameSelect(f, labels) ==
    LET ps == PosSeq(f, labels)
    IN [cols |-> [k \in 1..Len(ps) |-> f.cols[ps[k]]],
        dtype |-> [k \in 1..Len(ps) |-> f.dtype[ps[k]]],
        vals |-> [k \in 1..Len(ps) |-> f.vals[ps[k]]]]

\* Number of missing cells of a column.
Missing(cells) == Cardinality({r \in 1..Len(cells) : cells[r] = NA})

\* ------------------------------------------------------------------------
\*                         DATASET: PURE PARTS
\* ------------------------------------------------------------------------

\* An argument role= / type= of filter: None, one string, or a list.
ArgNone == [tag |-> "None", v |-> << >>]
ArgStr(x) == [tag |-> "str", v |-> << x >>]
ArgList(xs) == [tag |-> "list", v |-> xs]

\* Lines 198-206 of filter: the list an argument stands for.
RoleList(arg) ==
    IF arg.tag = "None" THEN << ID, INPUT, TARGET, REJECTED >> ELSE arg.v

TypeList(arg) ==
    IF arg.tag = "None" THEN << NUMBER, CATEGORY >> ELSE arg.v

\* `series[col] in list` of line 209, for one Series: "KeyError" when the
\* label is not in the index, "ValueError" when it occurs more than once
\* (series[col] is then a Series, whose comparison has no truth value),
\* otherwise the truth value as "True" / "False".  NaN is in no list.
InList(s, col, list) ==
    IF Pos(s, col) = {} THEN "KeyError"
    ELSE IF Cardinality(Pos(s, col)) > 1 THEN "ValueError"
    ELSE IF At(s, col) \in Range(list) THEN "True" ELSE "False"

\* The condition of the comprehension of lines 208-209 for one column:
\* `and` evaluates the type test only when the role test is True.
FilterTest(rl, ty, col, role_arg, type_arg) ==
    LET r == InList(rl, col, RoleList(role_arg))
    IN IF r = "True" THEN InList(ty, col, TypeList(type_arg)) ELSE r

\* Lines 208-209: the selected columns, or the first exception raised.
FilterCols(cols, rl, ty, role_arg, type_arg) ==
    LET res == [i \in 1..Len(cols) |->
                    FilterTest(rl, ty, cols[i], role_arg, type_arg)]
        bad == {i \in 1..Len(cols) : res[i] \notin {"True", "False"}}
    IN IF bad /= {}
       THEN [err |-> res[CHOOSE i \in bad : \A j \in bad : i <= j],
             cols |-> << >>]
       ELSE [err |-> "none",
             cols |-> SelectSeq(cols, LAMBDA c :
                        FilterTest(rl, ty, c, role_arg, type_arg) = "True")]

\* copper.utils.frame.percent_missing on a frame: one entry per column, the
\* number of missing cells and the number of rows.
frame_percent_missing(data) ==
    [index |-> data.cols,
     vals |-> [i \in 1..Len(data.cols) |->
                 [miss |-> Missing(data.vals[i]), n |-> Len(data.vals[i])]]]

\* Dataset.percent_missing(): filter() with the default arguments, then the
\* frame utility.  [err, pm].
percent_missing(f, cols, rl, ty) ==
    LET sel == FilterCols(cols, rl, ty, ArgNone, ArgNone)
    IN IF sel.err /= "none"
       THEN [err |-> sel.err, pm |-> frame_percent_missing(FrameSelect(f, << >>))]
       ELSE [err |-> "none",
             pm |-> frame_percent_missing(FrameSelect(f, sel.cols))]

\* percent_missing()[percent_missing() > 0.5].index
OverHalf(pm) ==
    {pm.index[i] : i \in {j \in 1..Len(pm.index) :
                            pm.vals[j].n > 0 /\ 2 * pm.vals[j].miss > pm.vals[j].n}}

\* Lines 82-94 of set_frame: the role Series for frame f.
SetFrameRole(f) ==
    LET cols == f.cols
        role0 == NewSeries(cols)
        id_cols == SelectSeq(cols, id_identifier)
        role1 == IF Len(id_cols) > 0
                 THEN SeriesSet(role0, Range(id_cols), ID) ELSE role0
        target_cols == SelectSeq(cols, target_identifier)
        role2 == IF Len(target_cols) > 0
                 THEN SeriesSet(SeriesSet(role1, {target_cols[1]}, TARGET),
                                Range(Tail(target_cols)), REJECTED)
                 ELSE role1
        rejected == OverHalf(percent_missing(f, cols, role2, NewSeries(cols)).pm)
        role3 == SeriesSet(role2, rejected, REJECTED)
    IN SeriesFillna(role3, INPUT)

\* Lines 97-99 of set_frame without the fillna of line 100.
SetFrameType_nofill(f) ==
    LET cols == f.cols
        number_cols == {cols[i] : i \in {j \in 1..Len(cols) :
                                    f.dtype[j] \in {"int64", "float64"}}}
    IN SeriesSet(NewSeries(cols), number_cols, NUMBER)

\* Lines 97-100 of set_frame: the type Series for frame f.
SetFrameType(f) ==
    LET cols == f.cols
        number_cols == {cols[i] : i \in {j \in 1..Len(cols) :
                                    f.dtype[j] \in {"int64", "float64"}}}
    IN SeriesFillna(SeriesSet(NewSeries(cols), number_cols, NUMBER), CATEGORY)

\* match without line 238: a column that is not in other keeps its role.
MatchRole_keep(cols, rl, other) ==
    [rl EXCEPT !.vals = [i \in 1..Len(rl.vals) |->
          IF rl.index[i] \in Range(cols) /\ Pos(other.role, rl.index[i]) /= {}
          THEN At(other.role, rl.index[i]) ELSE rl.vals[i]]]

\* Dataset.match: the role and type of this Dataset after match(other).
\* other.role[col] raises for a label that is not in other's index; the
\* except clause then leaves both entries of col as they are.
MatchRole(cols, rl, other) ==
    LET rejected == [rl EXCEPT !.vals = [i \in 1..Len(rl.vals) |-> REJECTED]]
    IN [rejected EXCEPT !.vals = [i \in 1..Len(rl.vals) |->
          IF rl.index[i] \in Range(cols) /\ Pos(other.role, rl.index[i]) /= {}
          THEN At(other.role, rl.index[i]) ELSE REJECTED]]

MatchType(cols, ty, other) ==
    [ty EXCEPT !.vals = [i \in 1..Len(ty.vals) |->
          IF /\ ty.index[i] \in Range(cols)
             /\ Pos(other.role, ty.index[i]) /= {}
             /\ Pos(other.type, ty.index[i]) /= {}
          THEN At(other.type, ty.index[i]) ELSE ty.vals[i]]]

\* Lines 225-229 of fix_names: one name with every ' ', '.' and '-' removed.
RECURSIVE StripSymbols(_, _)
StripSymbols(name, symbols) ==
    IF symbols = << >> THEN name
    ELSE StripSymbols(SelectSeq(name, LAMBDA c : c /= Head(symbols)),
                      Tail(symbols))

FixName(name) == StripSymbols(name, << " ", ".", "-" >>)

\* ------------------------------------------------------------------------
\*                              INPUTS
\* ------------------------------------------------------------------------

RECURSIVE SeqsUpTo(_, _)
\* The sequences over S of length at most n, without repetition.
SeqsUpTo(S, n) ==
    IF n = 0 THEN {<< >>}
    ELSE LET shorter == SeqsUpTo(S, n - 1)
         IN shorter \cup {Append(q, x) : q \in shorter, x \in S}

DistinctSeqs(S, n) ==
    {q \in SeqsUpTo(S, n) : \A i, j \in 1..Len(q) : q[i] = q[j] => i = j}

\* The cells of a column with m missing values: the present ones hold 1.
Cells(m) == [r \in 1..NRows |-> IF r <= m THEN NA ELSE Scale]

\* The columns frames are built from: a numeric column is int64 when
\* nothing is missing and float64 otherwise; an object column holds text.
Columns ==
    {[dtype |-> IF m = 0 THEN "int64" ELSE "float64", vals |-> Cells(m)] :
        m \in 0..NRows}
    \cup {[dtype |-> "object", vals |-> Cells(m)] : m \in 0..NRows}

MakeFrame(names, data) ==
    [cols |-> names,
     dtype |-> [i \in 1..Len(names) |-> data[i].dtype],
     vals |-> [i \in 1..Len(names) |-> data[i].vals]]

\* The frames a Dataset is constructed on: 1..MaxCols columns with
\* distinct names.
Frames ==
    UNION {{MakeFrame(names, data) : data \in [1..Len(names) -> Columns]} :
              names \in DistinctSeqs(ColNames, MaxCols) \ {<< >>}}

\* Frames whose numeric columns miss one value and whose object columns
\* miss none.
BasicFrames ==
    {f \in Frames : \A i \in 1..Len(f.cols) :
        Missing(f.vals[i]) = (IF f.dtype[i] = "object" THEN 0 ELSE 1)}

\* The frames assigned to ds.frame later on, and the frames of the other
\* Datasets handed to match: a single column.
SmallFrames == {f \in Frames : Len(f.cols) = 1 /\ f.dtype[1] = "int64"}

\* The values assigned by ds[name] = value.
ItemValues == {c \in Columns : c.dtype = "int64"}

\* ------------------------------------------------------------------------
\*                         DATASET: STATE
\* ------------------------------------------------------------------------

VARIABLES
    frame,      \* Dataset._frame
    columns,    \* Dataset.columns
    role,       \* Dataset.role
    type,       \* Dataset.type
    last,       \* the last call on the Dataset: its name, arguments,
                \* the exception it raised ("none" if it returned) and
                \* what it returned
    others_default  \* the list object that is the default of the
                    \* parameter 'others' of the function join

dsvars == << frame, columns, role, type >>

\* Dataset() with data=None: no frame, and no metadata yet.
NoFrame == [cols |-> << >>, dtype |-> << >>, vals |-> << >>]

Call(op, args, err, ret) == [op |-> op, args |-> args, err |-> err, ret |-> ret]

\* ------------------------------------------------------------------------
\*                         DATASET: fillna
\* ------------------------------------------------------------------------

Present(cells) == {r \in 1..Len(cells) : cells[r] /= NA}

RECURSIVE SumCells(_, _)
SumCells(cells, rows) ==
    IF rows = {} THEN 0
    ELSE LET r == CHOOSE x \in rows : TRUE
         IN cells[r] + SumCells(cells, rows \ {r})

\* Series.mean(): the mean of the present cells, NA (nan) when there are
\* none.
Mean(cells) ==
    IF Present(cells) = {} THEN NA
    ELSE SumCells(cells, Present(cells)) \div Cardinality(Present(cells))

Count(cells, v) == Cardinality({r \in 1..Len(cells) : cells[r] = v})

\* Series.value_counts().index[0]: a present value that occurs most often.
\* Only called on columns with a present cell.
Mode(cells) ==
    CHOOSE v \in {cells[r] : r \in Present(cells)} :
        \A w \in {cells[r] : r \in Present(cells)} : Count(cells, w) <= Count(cells, v)

\* Series.fillna(value=v); filling with nan changes nothing.
CellsFillna(cells, v) ==
    [r \in 1..Len(cells) |-> IF cells[r] = NA THEN v ELSE cells[r]]

\* frame[name] = cells (with the dtype the cells have): every column with
\* that label is replaced; a new label appends a column.
FrameSetItem(f, name, dtype, cells) ==
    IF FramePos(f, name) /= {}
    THEN [f EXCEPT
            !.dtype = [i \in 1..Len(f.cols) |->
                         IF f.cols[i] = name THEN dtype ELSE f.dtype[i]],
            !.vals = [i \in 1..Len(f.cols) |->
                         IF f.cols[i] = name THEN cells ELSE f.vals[i]]]
    ELSE [cols |-> Append(f.cols, name),
          dtype |-> Append(f.dtype, dtype),
          vals |-> Append(f.vals, cells)]

\* frame[name] for a label that occurs once.
FrameCol(f, name) == f.vals[CHOOSE i \in FramePos(f, name) : TRUE]
FrameDtype(f, name) == f.dtype[CHOOSE i \in FramePos(f, name) : TRUE]

\* `self.role[col] == x` used as a condition: "KeyError" for an unknown
\* label, "ValueError" for a repeated one, else "True" / "False".
Compare(s, col, x) ==
    IF Pos(s, col) = {} THEN "KeyError"
    ELSE IF Cardinality(Pos(s, col)) > 1 THEN "ValueError"
    ELSE IF At(s, col) = x THEN "True" ELSE "False"

\* The loop of lines 277-283 without the test of line 278: every column of
\* cols is filled, whatever its role.
RECURSIVE FillMean_anyrole(_, _, _, _)
FillMean_anyrole(f, rl, ty, cols) ==
    IF cols = << >> THEN [frame |-> f, err |-> "none"]
    ELSE LET col == Head(cols)
         IN IF Pos(rl, col) = {} \/ FramePos(f, col) = {}
            THEN [frame |-> f, err |-> "KeyError"]
            ELSE LET cells == FrameCol(f, col)
                 IN IF At(ty, col) = CATEGORY /\ Present(cells) = {}
                    THEN [frame |-> f, err |-> "IndexError"]
                    ELSE LET value == IF At(ty, col) = CATEGORY
                                      THEN Mode(cells) ELSE Mean(cells)
                         IN FillMean_anyrole(
                                FrameSetItem(f, col, FrameDtype(f, col),
                                             CellsFillna(cells, value)),
                                rl, ty, Tail(cols))

\* Lines 277-283: the loop of method 'mean' / 'mode' over cols, from frame
\* f.  [frame, err]: the frame when the loop ends or raises.
RECURSIVE FillMean(_, _, _, _)
FillMean(f, rl, ty, cols) ==
    IF cols = << >> THEN [frame |-> f, err |-> "none"]
    ELSE LET col == Head(cols)
             is_input == Compare(rl, col, INPUT)
         IN IF is_input \in {"KeyError", "ValueError"}
            THEN [frame |-> f, err |-> is_input]
            ELSE IF is_input = "False" THEN FillMean(f, rl, ty, Tail(cols))
            ELSE IF FramePos(f, col) = {} THEN [frame |-> f, err |-> "KeyError"]
            ELSE LET cells == FrameCol(f, col)
                 IN IF At(ty, col) = CATEGORY /\ Present(cells) = {}
                    THEN [frame |-> f, err |-> "IndexError"]
                    ELSE LET value == IF At(ty, col) = CATEGORY
                                      THEN Mode(cells) ELSE Mean(cells)
                         IN FillMean(FrameSetItem(f, col, FrameDtype(f, col),
                                                  CellsFillna(cells, value)),
                                     rl, ty, Tail(cols))

\* Lines 290-297: the loop of fillna(value=v) over cols.  A str value put
\* into a column leaves it an object column.
RECURSIVE FillValue(_, _, _, _, _)
FillValue(f, rl, cols, kind, v) ==
    IF cols = << >> THEN [frame |-> f, err |-> "none"]
    ELSE LET col == Head(cols)
             is_rejected == Compare(rl, col, REJECTED)
         IN IF is_rejected \in {"KeyError", "ValueError"}
            THEN [frame |-> f, err |-> is_rejected]
            ELSE IF is_rejected = "True" THEN FillValue(f, rl, Tail(cols), kind, v)
            ELSE IF FramePos(f, col) = {} THEN [frame |-> f, err |-> "KeyError"]
            ELSE LET cells == FrameCol(f, col)
                     dtype == IF kind = "str" /\ Missing(cells) > 0
                              THEN "object" ELSE FrameDtype(f, col)
                 IN FillValue(FrameSetItem(f, col, dtype, CellsFillna(cells, v)),
                              rl, Tail(cols), kind, v)

\* copper.r.imputeKNN followed by lines 286-288: every missing cell of the
\* columns in cols gets the imputed value v.
RECURSIVE FillKnn(_, _, _)
FillKnn(f, cols, v) ==
    IF cols = << >> THEN [frame |-> f, err |-> "none"]
    ELSE LET col == Head(cols)
         IN IF FramePos(f, col) = {} THEN [frame |-> f, err |-> "KeyError"]
            ELSE FillKnn([f EXCEPT !.vals = [i \in 1..Len(f.cols) |->
                             IF f.cols[i] = col THEN CellsFillna(f.vals[i], v)
                             ELSE f.vals[i]]],
                         Tail(cols), v)

\* Lines 271-274: cols=None is every column of self.columns, one label is
\* a list of it.
FillCols(arg) == IF arg.tag = "None" THEN columns ELSE arg.v

\* The arguments fillna is called with.
FillArgs ==
    {[cols |-> c, method |-> "mean", kind |-> "int", value |-> Scale] :
        c \in {ArgNone} \cup {ArgStr(n) : n \in ColNames}}
    \cup {[cols |-> ArgNone, method |-> m, kind |-> "int", value |-> Scale] :
        m \in {"mode", "knn"}}
    \cup {[cols |-> ArgNone, method |-> "value", kind |-> k, value |-> Scale] :
        k \in {"int", "str"}}

\* Datasets to fill, when fillna is looked at by itself.  Their columns are
\* named 'id', 'target', 'Tar get' and 'x' (the last two are Inputs).  A
\* column is full, or misses every cell, or misses the first cell; the
\* present cells of a column are all 1, or 1, 2, ... from the first
\* present cell on.
FillNames ==
    { << "i", "d" >>, << "t", "a", "r", "g", "e", "t" >>,
      << "T", "a", "r", " ", "g", "e", "t" >>, << "x" >> }

VariedCells == [r \in 1..NRows |-> IF r = 1 THEN NA ELSE Scale * (r - 1)]

FillColumns ==
    {[dtype |-> "int64", vals |-> Cells(0)],
     [dtype |-> "float64", vals |-> VariedCells],
     [dtype |-> "float64", vals |-> Cells(NRows)],
     [dtype |-> "object", vals |-> Cells(1)],
     [dtype |-> "object", vals |-> VariedCells],
     [dtype |-> "object", vals |-> Cells(NRows)]}

FillFrames ==
    UNION {{MakeFrame(names, data) : data \in [1..Len(names) -> FillColumns]} :
              names \in DistinctSeqs(FillNames, MaxCols) \ {<< >>}}

\* The calls of fillna with method 'mean' or 'mode'.
FillMeanArgs ==
    {[cols |-> c, method |-> m, kind |-> "int", value |-> Scale] :
        c \in {ArgNone} \cup {ArgStr(n) : n \in FillNames},
        m \in {"mean", "mode"}}

\* Dataset.fillna: [frame, err].
FillnaResult(a) ==
    IF a.method \in {"mean", "mode"} THEN FillMean(frame, role, type, FillCols(a.cols))
    ELSE IF a.method = "knn" THEN FillKnn(frame, FillCols(a.cols), Scale)
    ELSE FillValue(frame, role, FillCols(a.cols), a.kind, a.value)

\* ------------------------------------------------------------------------
\*                         DATASET: OPERATIONS
\* ------------------------------------------------------------------------

\* The metadata of another Dataset, as match reads it.
Meta(f) == [role |-> SetFrameRole(f), type |-> SetFrameType(f)]

Others == {Meta(f) : f \in SmallFrames}

\* The other Datasets of a.match(b) when match is looked at by itself: the
\* ones of one column, and the ones whose two columns are both named
\* 'target' in lower case (the first is the Target, the second a Reject).
MatchOthers ==
    Others \cup {Meta(f) : f \in {g \in BasicFrames :
                                    /\ Len(g.cols) = 2
                                    /\ target_identifier(g.cols[1])
                                    /\ target_identifier(g.cols[2])}}

\* ds.frame = f (set_frame; also what Dataset(f) does).
SetFrame(f) ==
    /\ frame' = f
    /\ columns' = f.cols
    /\ role' = SetFrameRole(f)
    /\ type' = SetFrameType(f)
    /\ last' = Call("set_frame", << >>, "none", << >>)

\* ds[name] = value
SetItem(name, value) ==
    /\ FramePos(frame, name) = {} => Len(frame.cols) < MaxCols
    /\ frame' = FrameSetItem(frame, name, value.dtype, value.vals)
    /\ last' = Call("setitem", << >>, "none", << >>)
    /\ UNCHANGED << columns, role, type >>

\* ds.fillna(cols, method, value)
Fillna(a) ==
    /\ frame' = FillnaResult(a).frame
    /\ last' = Call("fillna", a, FillnaResult(a).err, << >>)
    /\ UNCHANGED << columns, role, type >>

\* ds.fix_names(): assigning a list of another length to frame.columns
\* raises before anything is changed.
FixNames ==
    LET new_cols == [i \in 1..Len(columns) |-> FixName(columns[i])]
    IN IF Len(new_cols) /= Len(frame.cols)
       THEN /\ last' = Call("fix_names", << >>, "ValueError", << >>)
            /\ UNCHANGED dsvars
       ELSE /\ frame' = [frame EXCEPT !.cols = new_cols]
            /\ columns' = new_cols
            /\ role' = [role EXCEPT !.index = new_cols]
            /\ type' = [type EXCEPT !.index = new_cols]
            /\ last' = Call("fix_names", << >>, "none", << >>)

\* ds.match(other)
Match(other) ==
    /\ role' = MatchRole(columns, role, other)
    /\ type' = MatchType(columns, type, other)
    /\ last' = Call("match", other, "none", << >>)
    /\ UNCHANGED << frame, columns >>

\* ------------------------------------------------------------------------
\*               DATASET: join, the method and the function
\* ------------------------------------------------------------------------

\* Dataset(f) as a value: what join reads of a Dataset it is given.
DS(f) ==
    [frame |-> f, columns |-> f.cols, role |-> SetFrameRole(f),
     type |-> SetFrameType(f)]

\* The Dataset of the state variables.
Self == [frame |-> frame, columns |-> columns, role |-> role, type |-> type]

\* An element of a list of Datasets is a reference: to the Dataset of the
\* state variables, or to another Dataset (which nothing modifies).
SelfRef == [self |-> TRUE, ds |-> DS(NoFrame)]
Ref(ds) == [self |-> FALSE, ds |-> ds]
Deref(e) == IF e.self THEN Self ELSE e.ds
DerefAll(list) == [i \in 1..Len(list) |-> Deref(list[i])]

\* DataFrame.join on frames with the same row index: the columns of both,
\* ValueError ("columns overlap") when a label is in both.
FrameJoin(f, g) ==
    IF Range(f.cols) \cap Range(g.cols) /= {}
    THEN [err |-> "ValueError", frame |-> f]
    ELSE [err |-> "none",
          frame |-> [cols |-> f.cols \o g.cols,
                     dtype |-> f.dtype \o g.dtype,
                     vals |-> f.vals \o g.vals]]

\* Lines 504-509: the frames of the Datasets of a list joined from the
\* left.
RECURSIVE FrameJoinAll(_, _)
FrameJoinAll(df, list) ==
    IF list = << >> THEN [err |-> "none", frame |-> df]
    ELSE LET j == FrameJoin(df, Head(list).frame)
         IN IF j.err /= "none" THEN j ELSE FrameJoinAll(j.frame, Tail(list))

\* Lines 250-252 (513-515): ans.role[index] = row['Role'] and
\* ans.type[index] = row['Type'] for every row of ds.metadata, whose index
\* is ds.columns.
CopyMeta(ans, ds) ==
    [ans EXCEPT
        !.role = [ans.role EXCEPT !.vals =
                    [i \in 1..Len(ans.role.index) |->
                        IF ans.role.index[i] \in Range(ds.columns)
                        THEN At(ds.role, ans.role.index[i])
                        ELSE ans.role.vals[i]]],
        !.type = [ans.type EXCEPT !.vals =
                    [i \in 1..Len(ans.type.index) |->
                        IF ans.type.index[i] \in Range(ds.columns)
                        THEN At(ds.type, ans.type.index[i])
                        ELSE ans.type.vals[i]]]]

RECURSIVE CopyMetaAll(_, _)
CopyMetaAll(ans, list) ==
    IF list = << >> THEN ans
    ELSE CopyMetaAll(CopyMeta(ans, Head(list)), Tail(list))

\* The Dataset built from a list of Datasets: their frames joined, a new
\* Dataset of the result, then the metadata of each copied in list order.
JoinResult(list) ==
    LET j == FrameJoinAll(Head(list).frame, Tail(list))
    IN IF j.err /= "none" THEN [err |-> j.err, ds |-> DS(NoFrame)]
       ELSE [err |-> "none", ds |-> CopyMetaAll(DS(j.frame), list)]

\* The Datasets passed to join.
JoinOthers ==
    {DS(f) : f \in {g \in SmallFrames : ~ target_identifier_exact(g.cols[1])}}

JoinFirsts ==
    {SelfRef} \cup {Ref(DS(f)) : f \in {g \in SmallFrames : id_identifier(g.cols[1])}}

\* The argument 'others' of the function: absent, or a list of the caller.
OthersArgs ==
    {[given |-> FALSE, list |-> << >>], [given |-> TRUE, list |-> << >>]}
        \cup {[given |-> TRUE, list |-> << Ref(ds) >>] :
                    ds \in {d \in JoinOthers : ~ id_identifier(d.columns[1])}}

\* The number of calls of join(ds1, ds2) without 'others' that are followed.
MaxJoinCalls == 2

\* a.join(b), a the Dataset of the state variables
Join(b) ==
    LET res == JoinResult(<< Self, b >>)
    IN /\ last' = Call("join", << Self, b >>, res.err, res.ds)
       /\ UNCHANGED << dsvars, others_default >>

\* join(ds1, ds2, others): lines 501-502 insert ds2 and ds1 at the head of
\* the list 'others', which is the caller's list or, without the argument,
\* the one list object made when the function was defined.
JoinFn(ds1, ds2, a) ==
    LET before == IF a.given THEN a.list ELSE others_default
        others == << ds1, Ref(ds2) >> \o before
        res == JoinResult(DerefAll(others))
    IN /\ ~ a.given => Len(others_default) + 2 <= 2 * MaxJoinCalls
       /\ others_default' = IF a.given THEN others_default ELSE others
       /\ last' = Call("join_fn",
                       [ds1 |-> Deref(ds1), ds2 |-> ds2, given |-> a.given,
                        others |-> DerefAll(before)],
                       res.err,
                       [ds |-> res.ds, others |-> DerefAll(others)])
       /\ UNCHANGED dsvars

\* copper.transform.to_number applied to a column: the cells keep their
\* value, the column becomes float64.
RECURSIVE UpdateLoop(_, _, _)
UpdateLoop(f, ty, i) ==
    IF i > Len(f.cols) THEN [frame |-> f, err |-> "none"]
    ELSE LET is_number == Compare(ty, f.cols[i], NUMBER)
         IN IF is_number \in {"KeyError", "ValueError"}
            THEN [frame |-> f, err |-> is_number]
            ELSE IF is_number = "True" /\ f.dtype[i] = "object"
            THEN UpdateLoop(FrameSetItem(f, f.cols[i], "float64", f.vals[i]),
                            ty, i + 1)
            ELSE UpdateLoop(f, ty, i + 1)

\* ds.update()
Update ==
    /\ frame' = UpdateLoop(frame, type, 1).frame
    /\ last' = Call("update", << >>, UpdateLoop(frame, type, 1).err, << >>)
    /\ UNCHANGED << columns, role, type >>

\* What filter returns for the selected columns: the list (ret_cols), a
\* Dataset on frame[cols] matched to this one (ret_ds), or frame[cols].
FilterReturn(cols, mode) ==
    IF mode = "cols" THEN cols
    ELSE IF mode = "ds"
    THEN LET sub == FrameSelect(frame, cols)
             me == [role |-> role, type |-> type]
         IN [frame |-> sub,
             role |-> MatchRole(sub.cols, SetFrameRole(sub), me),
             type |-> MatchType(sub.cols, SetFrameType(sub), me)]
    ELSE FrameSelect(frame, cols)

\* ds.filter(role, type, ret_cols, ret_ds)
Filter(role_arg, type_arg, mode) ==
    LET sel == FilterCols(columns, role, type, role_arg, type_arg)
    IN /\ last' = Call("filter",
                       [role |-> role_arg, type |-> type_arg, mode |-> mode],
                       sel.err,
                       IF sel.err = "none" THEN FilterReturn(sel.cols, mode)
                       ELSE << >>)
       /\ UNCHANGED dsvars

\* ds.percent_missing()
PercentMissing ==
    /\ last' = Call("percent_missing", << >>,
                    percent_missing(frame, columns, role, type).err,
                    percent_missing(frame, columns, role, type).pm)
    /\ UNCHANGED dsvars

\* The arguments filter is called with.
RoleArgs ==
    {ArgNone, ArgStr(INPUT), ArgStr(REJECTED), ArgList(<< ID, TARGET >>)}

TypeArgs == {ArgNone, ArgStr(NUMBER), ArgList(<< CATEGORY >>)}

\* The calls of filter: every role and type with ret_cols, and some with
\* ret_ds and with neither.
FilterArgs ==
    {[role |-> r, type |-> t, mode |-> "cols"] : r \in RoleArgs, t \in TypeArgs}
    \cup {[role |-> r, type |-> ArgNone, mode |-> m] :
            r \in {ArgNone, ArgStr(INPUT)}, m \in {"ds", "frame"}}

\* ------------------------------------------------------------------------
\*                      MODELCOMPARISON: VALUES
\* ------------------------------------------------------------------------

\* Longest list handed to add_clfs.
MaxClfs == 2

\* Number of rows of the Datasets handed to a ModelComparison.
MLRows == 3

None == [some |-> FALSE, v |-> << >>]
Some(x) == [some |-> TRUE, v |-> x]

\* The objects handed to add_clf.  rule is what predict answers for a row:
\* always 0, always 1, or the row number modulo 2.  An object says which of
\* the scikit-learn methods it has.
Estimator(rule, proba) ==
    [rule |-> rule, fit |-> TRUE, predict |-> TRUE, score |-> TRUE,
     predict_proba |-> proba]

PlainObject ==
    [rule |-> "zero", fit |-> FALSE, predict |-> FALSE, score |-> FALSE,
     predict_proba |-> FALSE]

Objects ==
    {Estimator("zero", TRUE), Estimator("parity", TRUE),
     Estimator("one", FALSE), PlainObject}

\* prefix + '_' + str(i)
ClfName(prefix, i) == prefix \o "_" \o ToString(i)

\* The objects of the lists handed to add_clfs.
ListObjects == {Estimator("zero", TRUE), PlainObject}

\* The names add_clf and rm_clf are called with.
Names == {"a", ClfName("p", 0)}

Prefixes == {"p"}

\* A Dataset as a ModelComparison sees it: inputs2ml gives one row of
\* features per row of the Dataset (a row is named by its number), and
\* target2ml gives the target column, or None without a target.
MLData(n, target) ==
    [n |-> n, target |-> target, y |-> [i \in 1..n |-> i % 2],
     features |-> << "f" >>]

Datas == {MLData(MLRows, t) : t \in BOOLEAN}

\* copper.transform.inputs2ml
inputs2ml(ds) == [values |-> [i \in 1..ds.n |-> i], columns |-> ds.features]

\* copper.transform.target2ml
target2ml(ds) == IF ds.target THEN Some(ds.y) ELSE None

\* list(set(y)) for labels 0 and 1.
Distinct(y) == SelectSeq(<< 0, 1 >>, LAMBDA v : v \in Range(y))

\* The permutations of a finite set, as sequences.
Perms(S) == {q \in DistinctSeqs(S, Cardinality(S)) : Len(q) = Cardinality(S)}

VARIABLES
    clfs,            \* ModelComparison._clfs: a function from names
    X_train,
    y_train,
    X_test,
    y_test,
    feature_labels,
    target_labels,
    mlast            \* the last call on the ModelComparison: name,
                     \* arguments, the registry before it, the exception
                     \* raised ("none" if it returned), the value returned

mcvars == << clfs, X_train, y_train, X_test, y_test, feature_labels,
             target_labels >>

cached == << X_train, y_train, X_test, y_test, feature_labels, target_labels >>

vars == << frame, columns, role, type, last, others_default, clfs, X_train,
           y_train, X_test, y_test, feature_labels, target_labels, mlast >>

MCall(op, args, err, ret) ==
    [op |-> op, args |-> args, pre |-> clfs, err |-> err, ret |-> ret]

\* A dict with key k bound to v.
DictSet(d, k, v) ==
    [n \in DOMAIN d \cup {k} |-> IF n = k THEN v ELSE d[n]]

\* A dict without key k.
DictDel(d, k) == [n \in DOMAIN d \ {k} |-> d[n]]

EmptyDict == [n \in {} |-> PlainObject]

\* ------------------------------------------------------------------------
\*                      MODELCOMPARISON: REGISTRY
\* ------------------------------------------------------------------------

\* add_clf that keeps the object a name is already bound to (setdefault).
AddClfResult_keep(d, clf, name) ==
    IF name \in DOMAIN d THEN d ELSE DictSet(d, name, clf)

\* add_clf(clf, name)
AddClfResult(d, clf, name) == DictSet(d, name, clf)

AddClf(clf, name) ==
    /\ clfs' = AddClfResult(clfs, clf, name)
    /\ mlast' = MCall("add_clf", [clf |-> clf, name |-> name], "none", << >>)
    /\ UNCHANGED cached

\* add_clfs(list, prefix): add_clf for each (i, clf) of enumerate(list).
RECURSIVE AddClfsLoop(_, _, _, _)
AddClfsLoop(d, list, prefix, i) ==
    IF i >= Len(list) THEN d
    ELSE AddClfsLoop(AddClfResult(d, list[i + 1], ClfName(prefix, i)),
                     list, prefix, i + 1)

AddClfs(list, prefix) ==
    /\ clfs' = AddClfsLoop(clfs, list, prefix, 0)
    /\ mlast' = MCall("add_clfs", [clfs |-> list, prefix |-> prefix], "none", << >>)
    /\ UNCHANGED cached

\* rm_clf(name): del raises KeyError for a name that is not registered.
RmClfResult(d, name) == DictDel(d, name)

RmClf(name) ==
    /\ IF name \in DOMAIN clfs
       THEN /\ clfs' = RmClfResult(clfs, name)
            /\ mlast' = MCall("rm_clf", << name >>, "none", << >>)
       ELSE /\ clfs' = clfs
            /\ mlast' = MCall("rm_clf", << name >>, "KeyError", << >>)
    /\ UNCHANGED cached

\* clear_clfs()
ClearClfsResult(d) == EmptyDict

ClearClfs ==
    /\ clfs' = ClearClfsResult(clfs)
    /\ mlast' = MCall("clear_clfs", << >>, "none", << >>)
    /\ UNCHANGED cached

\* list_clfs(): pd.Series(values, index=keys), keys in the order the dict
\* gives them.
ListClfsResult(d, keys) ==
    [index |-> keys, vals |-> [i \in 1..Len(keys) |-> d[keys[i]]]]

ListClfs(keys) ==
    /\ mlast' = MCall("list_clfs", << >>, "none", ListClfsResult(clfs, keys))
    /\ UNCHANGED mcvars

\* ------------------------------------------------------------------------
\*                      MODELCOMPARISON: METRICS
\* ------------------------------------------------------------------------

\* clf.predict(X): one label per row.
Predict(clf, X) ==
    [i \in 1..Len(X) |->
        IF clf.rule = "zero" THEN 0 ELSE IF clf.rule = "one" THEN 1 ELSE X[i] % 2]

\* A probability p stands for p / One: the probabilities and cutoffs are
\* 0, 1/4, 1/2, 3/4 and 1; One is the 1 that line 184 writes.
One == 4

\* clf.predict_proba(X): per row, the probabilities of class 0 and of class
\* 1.  The "zero" object is sure of class 0, the "one" object of class 1,
\* and the "parity" object gives class 1 3/4 on odd rows and 1/2 on even
\* ones.
PredictProba(clf, X) ==
    [i \in 1..Len(X) |->
        LET p1 == IF clf.rule = "zero" THEN 0
                  ELSE IF clf.rule = "one" THEN One
                  ELSE IF X[i] % 2 = 1 THEN 3 ELSE 2
        IN << One - p1, p1 >>]

\* clf.predict_proba(X)[:, 1]: the probability of label 1, per row.
Proba1(clf, X) == [i \in 1..Len(X) |-> PredictProba(clf, X)[i][2]]

\* The method of the classifier a metric calls.
Needs(metric) ==
    IF metric = "accuracy" THEN "score"
    ELSE IF metric = "auc" THEN "predict_proba" ELSE "predict"

Has(clf, method) ==
    IF method = "score" THEN clf.score
    ELSE IF method = "predict_proba" THEN clf.predict_proba
    ELSE IF method = "predict" THEN clf.predict ELSE clf.fit

\* The inner fnc of a metric on one classifier, when it does not raise.
\* accuracy: the number of rows predicted right (clf.score times the number
\* of rows).  mse and rmsle: the number of rows predicted wrong (both grow
\* with it, for labels 0 and 1).  auc: twice the number of (positive,
\* negative) pairs ranked right plus the number of tied pairs (the area
\* times twice the number of pairs).
MetricValue(metric, clf, X, y) ==
    LET p == Predict(clf, X)
        rows == 1..Len(X)
        right == Cardinality({i \in rows : p[i] = y[i]})
        pairs == {<< i, j >> \in rows \X rows : y[i] = 1 /\ y[j] = 0}
        s == Proba1(clf, X)
    IN IF metric = "accuracy" THEN right
       ELSE IF metric = "auc"
       THEN 2 * Cardinality({q \in pairs : s[q[1]] > s[q[2]]})
            + Cardinality({q \in pairs : s[q[1]] = s[q[2]]})
       ELSE Len(X) - right

\* fnc(clf, X_test, y_test) of line 203: the exception it raises, "none"
\* when it returns.  A missing method raises AttributeError before the
\* library sees the arrays; the library raises on None.
FncError(metric, clf) ==
    IF ~Has(clf, Needs(metric)) THEN "AttributeError"
    ELSE IF ~X_test.some \/ ~y_test.some THEN "ValueError"
    ELSE "none"

\* Lines 201-203 of _metric_wrapper over the names in order: the first
\* exception raised, "none" when the loop ends.
RECURSIVE WrapperError(_, _)
WrapperError(metric, order) ==
    IF order = << >> THEN "none"
    ELSE IF Head(order) \notin DOMAIN clfs THEN "KeyError"
    ELSE IF FncError(metric, clfs[Head(order)]) /= "none"
         THEN FncError(metric, clfs[Head(order)])
    ELSE WrapperError(metric, Tail(order))

\* Series.order(ascending): whether a Series is sorted that way.
IsOrdered(series, ascending) ==
    \A i, j \in 1..Len(series.index) :
        i < j => IF ascending THEN series.vals[i] <= series.vals[j]
                 ELSE series.vals[i] >= series.vals[j]

\* The scores of lines 200-203 for the names in order.
Scores(metric, order) ==
    [index |-> order,
     vals |-> [i \in 1..Len(order) |->
                 MetricValue(metric, clfs[order[i]], X_test.v, y_test.v)]]

\* ans.order(ascending=ascending): the Series sorted; out is the order of
\* the names in it (pandas does not say how ties are ordered).
Ordered(metric, out, ascending) == IsOrdered(Scores(metric, out), ascending)

\* Lines 206-277.  The keyword arguments a metric is called with: clfs
\* (None: every registered name, in the order the dict gives them) and
\* ascending ("absent" when not given).  accuracy and auc hand **args to
\* _metric_wrapper, whose default is ascending=False; mse and rmsle hand it
\* ascending=True and **args, which is a TypeError when args has ascending.
MetricDefault(metric) == metric \in {"mse", "rmsle"}

PassesAscendingTwice(metric, asc) ==
    metric \in {"mse", "rmsle"} /\ asc /= "absent"

\* The orders in which the names of the `clfs` argument are visited.
Orders(clfs_arg) ==
    IF clfs_arg.tag = "None" THEN Perms(DOMAIN clfs) ELSE {clfs_arg.v}

\* The results ans.order(ascending) can give for the names in order.
Sorted(metric, order, ascending) ==
    {out \in Perms(Range(order)) : Ordered(metric, out, ascending)}

MetricError(metric, asc, order) ==
    IF PassesAscendingTwice(metric, asc) THEN "TypeError"
    ELSE WrapperError(metric, order)

MetricAscending(metric, asc) ==
    IF asc = "absent" THEN MetricDefault(metric) ELSE asc = "True"

\* accuracy / auc / mse / rmsle (clfs=..., ascending=...)
Metric(metric, clfs_arg, asc) ==
    /\ \E order \in Orders(clfs_arg) :
        LET args == [metric |-> metric, clfs |-> clfs_arg, ascending |-> asc]
            err == MetricError(metric, asc, order)
        IN IF err /= "none"
           THEN mlast' = MCall("metric", args, err, << >>)
           ELSE \E out \in Sorted(metric, order, MetricAscending(metric, asc)) :
                    mlast' = MCall("metric", args, "none", Scores(metric, out))
    /\ UNCHANGED mcvars

\* Lines 529-536 of roc: the names whose curve is plotted, out of the
\* names of the auc Series.
Plotted(out) == SelectSeq(out, LAMBDA n : FncError("auc", clfs[n]) = "none")

\* roc(ascending): auc(ascending=ascending) first; then one curve for each
\* name of the result whose predict_proba and roc_curve do not raise.
Roc(asc) ==
    /\ \E order \in Orders(ArgNone) :
        LET err == MetricError("auc", IF asc THEN "True" ELSE "False", order)
        IN IF err /= "none"
           THEN mlast' = MCall("roc", << asc >>, err, << >>)
           ELSE \E out \in Sorted("auc", order, asc) :
                    mlast' = MCall("roc", << asc >>, "none", Plotted(out))
    /\ UNCHANGED mcvars

\* The `clfs` arguments of the metrics.
ClfsArgs == {ArgNone, ArgList(<< "a" >>), ArgList(<< ClfName("p", 0), "a" >>)}

Metrics == {"accuracy", "auc", "mse", "rmsle"}

\* ------------------------------------------------------------------------
\*                   MODELCOMPARISON: CACHED ARRAYS
\* ------------------------------------------------------------------------

\* set_train(ds): target2ml(ds).values raises AttributeError when ds has no
\* target, after X_train and feature_labels were assigned.
SetTrain(ds) ==
    /\ X_train' = Some(inputs2ml(ds).values)
    /\ feature_labels' = Some(inputs2ml(ds).columns)
    /\ IF target2ml(ds).some
       THEN /\ y_train' = Some(target2ml(ds).v)
            /\ target_labels' = Some(Distinct(target2ml(ds).v))
            /\ mlast' = MCall("set_train", ds, "none", << >>)
       ELSE /\ UNCHANGED << y_train, target_labels >>
            /\ mlast' = MCall("set_train", ds, "AttributeError", << >>)
    /\ UNCHANGED << clfs, X_test, y_test >>

\* set_test(ds)
SetTest(ds) ==
    /\ X_test' = Some(inputs2ml(ds).values)
    /\ y_test' = IF target2ml(ds).some THEN Some(target2ml(ds).v) ELSE None
    /\ mlast' = MCall("set_test", ds, "none", << >>)
    /\ UNCHANGED << clfs, X_train, y_train, feature_labels, target_labels >>

\* train_size, in quarters.
TrainSizes == {2, 3}

\* cross_validation.train_test_split(..., test_size=1-train_size): the
\* number of test rows is ceil(test_size * n), the rest are training rows.
NTest(n, quarters) == ((4 - quarters) * n + 3) \div 4

\* The four arrays train_test_split returns for the shuffled row numbers
\* perm: X_train, X_test, y_train, y_test.
TrainTestSplit(inputs, target, perm, quarters) ==
    LET n == Len(inputs)
        n_train == n - NTest(n, quarters)
        train == SubSeq(perm, 1, n_train)
        test == SubSeq(perm, n_train + 1, n)
    IN << [k \in 1..Len(train) |-> inputs[train[k]]],
          [k \in 1..Len(test) |-> inputs[test[k]]],
          [k \in 1..Len(train) |-> target[train[k]]],
          [k \in 1..Len(test) |-> target[test[k]]] >>

\* sample unpacking the split as X_train, y_train, X_test, y_test.
SampleArrays_swapped(inputs, target, perm, quarters) ==
    LET split == TrainTestSplit(inputs, target, perm, quarters)
    IN [X_train |-> split[1], y_train |-> split[2],
        X_test |-> split[3], y_test |-> split[4]]

\* Lines 342-348 of sample: the cached arrays X_train, y_train, X_test,
\* y_test after the split.
SampleArrays(inputs, target, perm, quarters) ==
    LET split == TrainTestSplit(inputs, target, perm, quarters)
    IN [X_train |-> split[1], X_test |-> split[2],
        y_train |-> split[3], y_test |-> split[4]]

\* sample(ds, train_size)
Sample(ds, quarters) ==
    /\ feature_labels' = Some(inputs2ml(ds).columns)
    /\ IF target2ml(ds).some
       THEN \E perm \in Perms(1..ds.n) :
              LET a == SampleArrays(inputs2ml(ds).values, target2ml(ds).v,
                                    perm, quarters)
              IN /\ target_labels' = Some(Distinct(target2ml(ds).v))
                 /\ X_train' = Some(a.X_train)
                 /\ X_test' = Some(a.X_test)
                 /\ y_train' = Some(a.y_train)
                 /\ y_test' = Some(a.y_test)
                 /\ mlast' = MCall("sample", [ds |-> ds, train_size |-> quarters],
                                   "none", << >>)
       ELSE /\ UNCHANGED << target_labels, X_train, X_test, y_train, y_test >>
            /\ mlast' = MCall("sample", [ds |-> ds, train_size |-> quarters],
                              "AttributeError", << >>)
    /\ UNCHANGED clfs

\* ------------------------------------------------------------------------
\*                   MODELCOMPARISON: PREDICTIONS
\* ------------------------------------------------------------------------

\* The Datasets handed to predict as ds: one row less than the cached ones.
PredictDatas == {MLData(MLRows - 1, FALSE)}

\* The `ds` arguments of predict, predict_proba and cutoff_predict.
DsArgs == {None} \cup {Some(ds) : ds \in PredictDatas}

\* predict that always uses the cached X_test.
PredictInputs_cached(ds_arg) == X_test

\* Lines 124-127: the inputs predicted on, the cached X_test when ds is None.
PredictInputs(ds_arg) ==
    IF ds_arg.some THEN Some(inputs2ml(ds_arg.v).values) ELSE X_test

\* pd.DataFrame(index=range(len(X))): a table without columns.
EmptyTable(X) == [n |-> Len(X), cols |-> << >>, vals |-> << >>]

\* ans.join(new) for a named Series.
TableJoin(t, name, cells) ==
    [t EXCEPT !.cols = Append(t.cols, name), !.vals = Append(t.vals, cells)]

\* Lines 130-134 of predict over the names in order, from table ans: the
\* table when the loop ends, or the first exception.  A name that is not
\* registered is a KeyError, an object without predict an AttributeError,
\* and joining a column whose name the table already has raises.
RECURSIVE PredictLoop(_, _, _)
PredictLoop(names, X, ans) ==
    IF names = << >> THEN [err |-> "none", table |-> ans]
    ELSE LET clf_name == Head(names)
         IN IF clf_name \notin DOMAIN clfs THEN [err |-> "KeyError", table |-> ans]
            ELSE IF ~clfs[clf_name].predict
            THEN [err |-> "AttributeError", table |-> ans]
            ELSE IF clf_name \in Range(ans.cols)
            THEN [err |-> "ValueError", table |-> ans]
            ELSE PredictLoop(Tail(names), X,
                             TableJoin(ans, clf_name, Predict(clfs[clf_name], X)))

\* Lines 122-135 of predict for the names in order: len(None) of line 129
\* is a TypeError.
PredictResult(ds_arg, order) ==
    IF ~PredictInputs(ds_arg).some
    THEN [err |-> "TypeError", table |-> EmptyTable(<< >>)]
    ELSE PredictLoop(order, PredictInputs(ds_arg).v,
                     EmptyTable(PredictInputs(ds_arg).v))

\* predict(ds, clfs)
PredictCall(ds_arg, clfs_arg) ==
    /\ \E order \in Orders(clfs_arg) :
        mlast' = MCall("predict", [ds |-> ds_arg, clfs |-> clfs_arg, order |-> order],
                       PredictResult(ds_arg, order).err,
                       PredictResult(ds_arg, order).table)
    /\ UNCHANGED mcvars

\* '%s [%d]' % (clf_name, val)
ProbaName(clf_name, val) == clf_name \o " [" \o ToString(val) \o "]"

\* Lines 160-163 of predict_proba: one column per class of the classifier.
RECURSIVE ProbaColumns(_, _, _, _)
ProbaColumns(ans, clf_name, probas, val) ==
    IF val >= 2 THEN [err |-> "none", table |-> ans]
    ELSE IF ProbaName(clf_name, val) \in Range(ans.cols)
    THEN [err |-> "ValueError", table |-> ans]
    ELSE ProbaColumns(TableJoin(ans, ProbaName(clf_name, val),
                                [i \in 1..Len(probas) |-> probas[i][val + 1]]),
                      clf_name, probas, val + 1)

\* Lines 157-163 of predict_proba over the names in order.
RECURSIVE ProbaLoop(_, _, _)
ProbaLoop(names, X, ans) ==
    IF names = << >> THEN [err |-> "none", table |-> ans]
    ELSE LET clf_name == Head(names)
         IN IF clf_name \notin DOMAIN clfs THEN [err |-> "KeyError", table |-> ans]
            ELSE IF ~clfs[clf_name].predict_proba
            THEN [err |-> "AttributeError", table |-> ans]
            ELSE LET joined == ProbaColumns(ans, clf_name,
                                            PredictProba(clfs[clf_name], X), 0)
                 IN IF joined.err /= "none" THEN joined
                    ELSE ProbaLoop(Tail(names), X, joined.table)

\* Lines 149-164 of predict_proba for the names in order.
PredictProbaResult(ds_arg, order) ==
    IF ~PredictInputs(ds_arg).some
    THEN [err |-> "TypeError", table |-> EmptyTable(<< >>)]
    ELSE ProbaLoop(order, PredictInputs(ds_arg).v,
                   EmptyTable(PredictInputs(ds_arg).v))

\* predict_proba(ds, clfs)
PredictProbaCall(ds_arg, clfs_arg) ==
    /\ \E order \in Orders(clfs_arg) :
        mlast' = MCall("predict_proba",
                       [ds |-> ds_arg, clfs |-> clfs_arg, order |-> order],
                       PredictProbaResult(ds_arg, order).err,
                       PredictProbaResult(ds_arg, order).table)
    /\ UNCHANGED mcvars

\* Lines 171-175 of cutoff_predict: the positions of the columns to keep,
\* one for the first position and one more for each entry of self.clfs
\* after the first.
TargetCols(index, num_options, n_registered) ==
    [k \in 1..(IF n_registered = 0 THEN 1 ELSE n_registered) |->
        index + (k - 1) * num_options]

\* Lines 183-184 on one cell: below the cutoff it becomes 0, then a cell
\* above the cutoff becomes 1; a cell equal to the cutoff is left as it is.
\* (pandas of the time writes probas[col][mask] = v through to the table.)
Cutoff(p, cutoff) ==
    LET below == IF p < cutoff THEN 0 ELSE p
    IN IF below > cutoff THEN One ELSE below

\* Lines 167-186 of cutoff_predict.  registered is self.clfs.index, the
\* names of the registry in the order the dict gives them.
CutoffPredictResult(target, cutoff, ds_arg, clfs_arg, registered) ==
    LET names == IF clfs_arg.tag = "None" THEN registered ELSE clfs_arg.v
        none == EmptyTable(<< >>)
    IN IF ~target_labels.some THEN [err |-> "AttributeError", table |-> none]
       ELSE IF target \notin Range(target_labels.v)
       THEN [err |-> "ValueError", table |-> none]
       ELSE
       LET index == (CHOOSE i \in 1..Len(target_labels.v) :
                        target_labels.v[i] = target) - 1
           target_cols == TargetCols(index, Len(target_labels.v), Len(registered))
           probas == PredictProbaResult(ds_arg, names)
       IN IF probas.err /= "none" THEN [err |-> probas.err, table |-> none]
          ELSE IF \E k \in 1..Len(target_cols) :
                        target_cols[k] >= Len(probas.table.cols)
          THEN [err |-> "IndexError", table |-> none]
          ELSE IF Len(target_cols) /= Len(registered)
          THEN [err |-> "ValueError", table |-> none]
          ELSE [err |-> "none",
                table |-> [n |-> probas.table.n,
                           cols |-> registered,
                           vals |-> [k \in 1..Len(target_cols) |->
                                [i \in 1..probas.table.n |->
                                    Cutoff(probas.table.vals[target_cols[k] + 1][i],
                                           cutoff)]]]]

\* cutoff_predict(target, cutoff, ds, clfs)
CutoffPredict(target, cutoff, ds_arg, clfs_arg) ==
    /\ \E registered \in Perms(DOMAIN clfs) :
        LET res == CutoffPredictResult(target, cutoff, ds_arg, clfs_arg, registered)
        IN mlast' = MCall("cutoff_predict",
                          [target |-> target, cutoff |-> cutoff, ds |-> ds_arg,
                           clfs |-> clfs_arg, registered |-> registered],
                          res.err, res.table)
    /\ UNCHANGED mcvars

\* The classes asked for and the cutoffs.
Targets == {0, 1}

Cutoffs == {0, 2, One}

\* fit() handing the test arrays to the classifiers.
RECURSIVE FitLoop_test(_, _)
FitLoop_test(order, calls) ==
    IF order = << >> THEN [err |-> "none", calls |-> calls]
    ELSE IF ~clfs[Head(order)].fit THEN [err |-> "AttributeError", calls |-> calls]
    ELSE LET made == Append(calls, [clf |-> Head(order), X |-> X_test, y |-> y_test])
         IN IF ~X_test.some \/ ~y_test.some
            THEN [err |-> "ValueError", calls |-> made]
            ELSE FitLoop_test(Tail(order), made)

\* Lines 106-107 of fit over the names in order: the calls
\* clf.fit(X_train, y_train) made so far, and the exception that ends the
\* loop ("none" when it ends by itself).  An object without fit is an
\* AttributeError; an estimator raises on arrays that are None.
RECURSIVE FitLoop(_, _)
FitLoop(order, calls) ==
    IF order = << >> THEN [err |-> "none", calls |-> calls]
    ELSE IF ~clfs[Head(order)].fit THEN [err |-> "AttributeError", calls |-> calls]
    ELSE LET made == Append(calls, [clf |-> Head(order), X |-> X_train, y |-> y_train])
         IN IF ~X_train.some \/ ~y_train.some
            THEN [err |-> "ValueError", calls |-> made]
            ELSE FitLoop(Tail(order), made)

\* fit()
Fit ==
    /\ \E order \in Perms(DOMAIN clfs) :
        mlast' = MCall("fit", << >>, FitLoop(order, << >>).err,
                       FitLoop(order, << >>).calls)
    /\ UNCHANGED mcvars

\* ------------------------------------------------------------------------
\*                          SPECIFICATIONS
\* ------------------------------------------------------------------------

\* ModelComparison()
InitMC ==
    /\ clfs = EmptyDict
    /\ X_train = None
    /\ y_train = None
    /\ X_test = None
    /\ y_test = None
    /\ feature_labels = None
    /\ target_labels = None
    /\ mlast = [op |-> "init", args |-> << >>, pre |-> EmptyDict,
                err |-> "none", ret |-> << >>]

\* Dataset(f), for the frames of F
InitDS(F) ==
    \E f \in F :
        /\ frame = f
        /\ columns = f.cols
        /\ role = SetFrameRole(f)
        /\ type = SetFrameType(f)
        /\ last = Call("set_frame", << >>, "none", << >>)
        /\ others_default = << >>

\* Dataset()
InitNoDS ==
    /\ frame = NoFrame
    /\ columns = << >>
    /\ role = NewSeries(<< >>)
    /\ type = NewSeries(<< >>)
    /\ last = Call("init", << >>, "none", << >>)
    /\ others_default = << >>

\* A Dataset under its public operations.
Init == InitDS(BasicFrames) /\ InitMC

\* What the operations of one Dataset leave alone, and what the operations
\* of a ModelComparison leave alone.
mcstate == << clfs, X_train, y_train, X_test, y_test, feature_labels,
              target_labels, mlast, others_default >>

dsstate == << frame, columns, role, type, last, others_default >>

Next ==
    \/ \E f \in SmallFrames : SetFrame(f) /\ UNCHANGED mcstate
    \/ \E name \in ColNames, value \in ItemValues :
            SetItem(name, value) /\ UNCHANGED mcstate
    \/ \E a \in FillArgs : Fillna(a) /\ UNCHANGED mcstate
    \/ FixNames /\ UNCHANGED mcstate
    \/ \E other \in Others : Match(other) /\ UNCHANGED mcstate
    \/ Update /\ UNCHANGED mcstate
    \/ \E a \in FilterArgs : Filter(a.role, a.type, a.mode) /\ UNCHANGED mcstate

Spec == Init /\ [][Next]_vars

\* set_frame on every frame.
InitFrame == InitDS(Frames) /\ InitMC

NextFrame ==
    \/ \E f \in SmallFrames : SetFrame(f) /\ UNCHANGED mcstate
    \/ PercentMissing /\ UNCHANGED mcstate

SpecFrame == InitFrame /\ [][NextFrame]_vars

\* A Dataset under match, filter(ret_ds=True) and fix_names.
NextMatch ==
    \/ \E other \in MatchOthers : Match(other) /\ UNCHANGED mcstate
    \/ \E a \in {x \in FilterArgs : x.mode = "ds"} :
            Filter(a.role, a.type, a.mode) /\ UNCHANGED mcstate
    \/ FixNames /\ UNCHANGED mcstate

SpecMatch == Init /\ [][NextMatch]_vars

\* A Dataset under fillna with method 'mean' / 'mode'.
InitFill == InitDS(FillFrames) /\ InitMC

NextFill ==
    \/ \E a \in FillMeanArgs : Fillna(a) /\ UNCHANGED mcstate
    \/ \E f \in SmallFrames : SetFrame(f) /\ UNCHANGED mcstate

SpecFill == InitFill /\ [][NextFill]_vars

\* Datasets joined, by the method and by the function, and match to give
\* a Dataset metadata that set_frame would not infer.
InitJoin == InitDS(SmallFrames) /\ InitMC

joinrest == << clfs, X_train, y_train, X_test, y_test, feature_labels,
               target_labels, mlast >>

NextJoin ==
    \/ \E other \in Others : Match(other) /\ UNCHANGED mcstate
    \/ \E b \in JoinOthers : Join(b) /\ UNCHANGED joinrest
    \/ \E ds1 \in JoinFirsts, ds2 \in JoinOthers, a \in OthersArgs :
            JoinFn(ds1, ds2, a) /\ UNCHANGED joinrest

SpecJoin == InitJoin /\ [][NextJoin]_vars

\* A ModelComparison: its registry.
InitReg == InitNoDS /\ InitMC

NextReg ==
    \/ \E clf \in Objects, name \in Names : AddClf(clf, name) /\ UNCHANGED dsstate
    \/ \E list \in SeqsUpTo(ListObjects, MaxClfs), prefix \in Prefixes :
            AddClfs(list, prefix) /\ UNCHANGED dsstate
    \/ \E name \in Names : RmClf(name) /\ UNCHANGED dsstate
    \/ ClearClfs /\ UNCHANGED dsstate
    \/ \E keys \in Perms(DOMAIN clfs) : ListClfs(keys) /\ UNCHANGED dsstate

SpecReg == InitReg /\ [][NextReg]_vars

\* A ModelComparison: the test arrays, the metrics and roc.
NextMetrics ==
    \/ \E clf \in Objects, name \in Names : AddClf(clf, name) /\ UNCHANGED dsstate
    \/ \E name \in Names : RmClf(name) /\ UNCHANGED dsstate
    \/ \E ds \in Datas : SetTest(ds) /\ UNCHANGED dsstate
    \/ \E m \in Metrics, c \in ClfsArgs, asc \in {"absent", "True", "False"} :
            Metric(m, c, asc) /\ UNCHANGED dsstate
    \/ \E asc \in BOOLEAN : Roc(asc) /\ UNCHANGED dsstate

SpecMetrics == InitReg /\ [][NextMetrics]_vars

\* A ModelComparison: the cached arrays.
NextArrays ==
    \/ \E ds \in Datas : SetTrain(ds) /\ UNCHANGED dsstate
    \/ \E ds \in Datas : SetTest(ds) /\ UNCHANGED dsstate
    \/ \E ds \in Datas, quarters \in TrainSizes :
            Sample(ds, quarters) /\ UNCHANGED dsstate
    \/ \E clf \in Objects : AddClf(clf, "a") /\ UNCHANGED dsstate

SpecArrays == InitReg /\ [][NextArrays]_vars

\* A ModelComparison: predict, predict_proba and cutoff_predict.
NextPredict ==
    \/ \E clf \in Objects, name \in Names : AddClf(clf, name) /\ UNCHANGED dsstate
    \/ \E ds \in Datas : SetTrain(ds) /\ UNCHANGED dsstate
    \/ \E ds \in Datas : SetTest(ds) /\ UNCHANGED dsstate
    \/ \E d \in DsArgs, c \in ClfsArgs : PredictCall(d, c) /\ UNCHANGED dsstate
    \/ \E d \in DsArgs, c \in ClfsArgs : PredictProbaCall(d, c) /\ UNCHANGED dsstate
    \/ \E t \in Targets, cutoff \in Cutoffs, d \in DsArgs, c \in ClfsArgs :
            CutoffPredict(t, cutoff, d, c) /\ UNCHANGED dsstate

SpecPredict == InitReg /\ [][NextPredict]_vars

\* A ModelComparison: the cached arrays and fit.
NextFit ==
    \/ \E clf \in Objects, name \in Names : AddClf(clf, name) /\ UNCHANGED dsstate
    \/ \E ds \in Datas : SetTrain(ds) /\ UNCHANGED dsstate
    \/ \E ds \in Datas : SetTest(ds) /\ UNCHANGED dsstate
    \/ Fit /\ UNCHANGED dsstate

SpecFit == InitReg /\ [][NextFit]_vars

\* ------------------------------------------------------------------------
\*                        PROPERTIES: DATASET
\* ------------------------------------------------------------------------

\* C1: in every reachable state of a Dataset the index of role and the
\* index of type both equal the set of columns of the frame.
C1_IndexIsColumnSet ==
    /\ Range(role.index) = Range(frame.cols)
    /\ Range(type.index) = Range(frame.cols)

\* Column i of the frame has a name that is neither 'id' nor 'target' in
\* lower case, and at most half of its cells are missing.
NoRoleRule(i) ==
    /\ Lower(frame.cols[i]) /= << "i", "d" >>
    /\ Lower(frame.cols[i]) /= << "t", "a", "r", "g", "e", "t" >>
    /\ 2 * Missing(frame.vals[i]) <= Len(frame.vals[i])

\* C2: after set_frame every column of the frame has exactly one role out
\* of ID, Input, Target, Reject and exactly one type out of Number,
\* Category; a column that matched no role rule is an Input, and a column
\* whose dtype is not int64/float64 is a Category.
C2_EveryColumnTagged ==
    last.op = "set_frame" =>
        /\ role.index = frame.cols
        /\ type.index = frame.cols
        /\ \A i \in 1..Len(frame.cols) :
            /\ Cardinality(Pos(role, frame.cols[i])) = 1
            /\ Cardinality(Pos(type, frame.cols[i])) = 1
            /\ role.vals[i] \in {ID, INPUT, TARGET, REJECT}
            /\ type.vals[i] \in {NUMBER, CATEGORY}
            /\ NoRoleRule(i) => role.vals[i] = INPUT
            /\ frame.dtype[i] \notin {"int64", "float64"} => type.vals[i] = CATEGORY

\* C2 witness: set_frame returned on a frame with an object column that
\* matched no role rule, now an Input of type Category, next to a numeric
\* column.
C2_Witness ==
    /\ last.op = "set_frame"
    /\ \E i, j \in 1..Len(frame.cols) :
        /\ NoRoleRule(i)
        /\ frame.dtype[i] = "object"
        /\ role.vals[i] = INPUT
        /\ type.vals[i] = CATEGORY
        /\ frame.dtype[j] = "float64"
        /\ type.vals[j] = NUMBER

\* The columns whose name is 'target' in lower case.
TargetNamed == {i \in 1..Len(frame.cols) :
                    Lower(frame.cols[i]) = << "t", "a", "r", "g", "e", "t" >>}

\* C3: after set_frame every column with more than 50% of its values
\* missing has role Reject, and a column with 50% or fewer missing is not
\* rejected by that rule (it is a Reject only as a second 'target').
C3_MissingRejected ==
    last.op = "set_frame" =>
        \A i \in 1..Len(frame.cols) :
            /\ 2 * Missing(frame.vals[i]) > Len(frame.vals[i])
                    => role.vals[i] = REJECT
            /\ (2 * Missing(frame.vals[i]) <= Len(frame.vals[i])
                    /\ role.vals[i] = REJECT)
                    => \E j \in TargetNamed : j < i /\ i \in TargetNamed

\* C4: after set_frame at most one column is the Target: of the columns
\* named 'target' in lower case the first is the Target and the later ones
\* are Reject; every column named 'id' in lower case is an ID; no other
\* column is an ID or a Target.
C4_OneTarget ==
    last.op = "set_frame" =>
        /\ Cardinality({i \in 1..Len(frame.cols) : role.vals[i] = TARGET}) <= 1
        /\ \A i \in TargetNamed :
            role.vals[i] = IF \A j \in TargetNamed : i <= j THEN TARGET ELSE REJECT
        /\ \A i \in 1..Len(frame.cols) :
            /\ Lower(frame.cols[i]) = << "i", "d" >> => role.vals[i] = ID
            /\ (i \notin TargetNamed /\ Lower(frame.cols[i]) /= << "i", "d" >>)
                    => role.vals[i] \notin {ID, TARGET}

\* C4 witness: set_frame returned on a frame with two columns named
\* 'target' in lower case: the first is the Target, the second a Reject.
C4_Witness ==
    /\ last.op = "set_frame"
    /\ \E i, j \in TargetNamed :
        /\ i < j
        /\ frame.cols[j] = << "t", "a", "r", "g", "e", "t" >>
        /\ role.vals[i] = TARGET
        /\ role.vals[j] = REJECT

\* What an argument of filter asks for: None is every value of all.
Requested(arg, all) == IF arg.tag = "None" THEN all ELSE Range(arg.v)

\* The columns of the frame, in its order, whose role and type are the
\* requested ones (a column added by ds[name] = value has neither).
Expected(role_arg, type_arg) ==
    LET keep == {i \in 1..Len(frame.cols) :
                    /\ i <= Len(role.vals)
                    /\ role.vals[i] \in Requested(role_arg, {ID, INPUT, TARGET, REJECT})
                    /\ type.vals[i] \in Requested(type_arg, {NUMBER, CATEGORY})}
        ixs == SelectSeq([i \in 1..Len(frame.cols) |-> i], LAMBDA i : i \in keep)
    IN [k \in 1..Len(ixs) |-> frame.cols[ixs[k]]]

\* C5: filter(role, type, ret_cols=True) returns exactly the columns whose
\* role is among the requested roles and whose type is among the requested
\* types, in the order of the frame.
C5_FilterSelects ==
    (last.op = "filter" /\ last.args.mode = "cols") =>
        /\ last.err = "none"
        /\ last.ret = Expected(last.args.role, last.args.type)

\* ------------------------------------------------------------------------
\*                   PROPERTIES: MODELCOMPARISON
\* ------------------------------------------------------------------------

\* The entries of d other than those of the names in changed are the
\* entries of pre.
OthersKept(pre, d, changed) ==
    /\ DOMAIN d \ changed = DOMAIN pre \ changed
    /\ \A n \in DOMAIN pre \ changed : d[n] = pre[n]

\* C6: the registry is a mapping from name to model: add_clf binds the name
\* to the object (overwriting) and changes no other entry; add_clfs binds
\* prefix_i to the i-th object; rm_clf removes that entry only, and raises
\* and changes nothing for a name that is not there; clear_clfs leaves no
\* entry; list_clfs returns exactly the entries.
C6_RegistryIsMapping ==
    /\ mlast.op = "add_clf" =>
        /\ mlast.args.name \in DOMAIN clfs
        /\ clfs[mlast.args.name] = mlast.args.clf
        /\ OthersKept(mlast.pre, clfs, {mlast.args.name})
    /\ mlast.op = "add_clfs" =>
        LET added == {ClfName(mlast.args.prefix, i - 1) : i \in 1..Len(mlast.args.clfs)}
        IN /\ \A i \in 1..Len(mlast.args.clfs) :
                /\ ClfName(mlast.args.prefix, i - 1) \in DOMAIN clfs
                /\ clfs[ClfName(mlast.args.prefix, i - 1)] = mlast.args.clfs[i]
           /\ OthersKept(mlast.pre, clfs, added)
    /\ mlast.op = "rm_clf" =>
        IF mlast.args[1] \in DOMAIN mlast.pre
        THEN /\ mlast.err = "none"
             /\ mlast.args[1] \notin DOMAIN clfs
             /\ OthersKept(mlast.pre, clfs, {mlast.args[1]})
        ELSE /\ mlast.err = "KeyError"
             /\ clfs = mlast.pre
    /\ mlast.op = "clear_clfs" => DOMAIN clfs = {}
    /\ mlast.op = "list_clfs" =>
        /\ clfs = mlast.pre
        /\ Len(mlast.ret.index) = Cardinality(DOMAIN clfs)
        /\ Range(mlast.ret.index) = DOMAIN clfs
        /\ \A i \in 1..Len(mlast.ret.index) :
            mlast.ret.vals[i] = clfs[mlast.ret.index[i]]

\* C6 witness: add_clf on a name that was bound to another object, with a
\* second entry in the registry.
C6_Witness ==
    /\ mlast.op = "add_clf"
    /\ mlast.args.name \in DOMAIN mlast.pre
    /\ mlast.pre[mlast.args.name] /= mlast.args.clf
    /\ Cardinality(DOMAIN clfs) > 1

\* C7: every object in the registry has fit and predict.
C7_ModelsHaveFitPredict ==
    \A n \in DOMAIN clfs : clfs[n].fit /\ clfs[n].predict

\* C8: with test arrays set and every registered model having fit and
\* predict, one of them without predict_proba, roc() returns, and plots
\* exactly the models that have predict_proba.
C8_RocSkips ==
    (/\ mlast.op = "roc"
     /\ X_test.some
     /\ y_test.some
     /\ \A n \in DOMAIN clfs : clfs[n].fit /\ clfs[n].predict
     /\ \E n \in DOMAIN clfs : ~clfs[n].predict_proba) =>
        /\ mlast.err = "none"
        /\ Range(mlast.ret) = {n \in DOMAIN clfs : clfs[n].predict_proba}

\* The names a metric was asked about.
Asked(clfs_arg) == IF clfs_arg.tag = "None" THEN DOMAIN clfs ELSE Range(clfs_arg.v)

\* C9: accuracy, auc, mse and rmsle take `ascending`: called on registered
\* classifiers that have the method the metric needs, with test arrays
\* set, each returns one score per classifier asked about, sorted in the
\* direction given; without `ascending`, accuracy and auc are sorted
\* descending and mse and rmsle ascending.
C9_MetricsSorted ==
    (/\ mlast.op = "metric"
     /\ X_test.some
     /\ y_test.some
     /\ \A n \in Asked(mlast.args.clfs) :
            n \in DOMAIN clfs /\ Has(clfs[n], Needs(mlast.args.metric))) =>
        /\ mlast.err = "none"
        /\ Len(mlast.ret.index) = Cardinality(Asked(mlast.args.clfs))
        /\ Range(mlast.ret.index) = Asked(mlast.args.clfs)
        /\ IsOrdered(mlast.ret,
                     IF mlast.args.ascending = "absent"
                     THEN mlast.args.metric \in {"mse", "rmsle"}
                     ELSE mlast.args.ascending = "True")

\* C10: sample(ds, train_size) sets the four cached arrays and the labels
\* from ds: training and test rows are disjoint and together the rows of
\* ds, X and y of each part are the same rows, and the registry is
\* unchanged.
C10_SamplePartitions ==
    (mlast.op = "sample" /\ mlast.err = "none") =>
        LET ds == mlast.args.ds
        IN /\ X_train.some /\ y_train.some /\ X_test.some /\ y_test.some
           /\ feature_labels.some /\ target_labels.some
           /\ Range(X_train.v) \cap Range(X_test.v) = {}
           /\ Range(X_train.v) \cup Range(X_test.v) = 1..ds.n
           /\ Len(X_train.v) + Len(X_test.v) = ds.n
           /\ Len(y_train.v) = Len(X_train.v)
           /\ Len(y_test.v) = Len(X_test.v)
           /\ \A k \in 1..Len(X_train.v) : y_train.v[k] = ds.y[X_train.v[k]]
           /\ \A k \in 1..Len(X_test.v) : y_test.v[k] = ds.y[X_test.v[k]]
           /\ feature_labels.v = ds.features
           /\ Range(target_labels.v) = Range(ds.y)
           /\ clfs = mlast.pre

\* C10 witness: sample returned with training and test rows, on a
\* ModelComparison with a registered classifier.
C10_Witness ==
    /\ mlast.op = "sample"
    /\ mlast.err = "none"
    /\ Len(X_train.v) >= 1
    /\ Len(X_test.v) >= 1
    /\ DOMAIN clfs /= {}

\* The names predict was asked about, in the order it met them.
PredictAsked == IF mlast.args.clfs.tag = "None" THEN mlast.args.order
                ELSE mlast.args.clfs.v

\* The inputs predict was asked about: the rows of ds, or the cached X_test.
PredictRows ==
    IF mlast.args.ds.some THEN Some([i \in 1..mlast.args.ds.v.n |-> i]) ELSE X_test

\* The table predict returned: one row per input and one column per name
\* asked about, in that order, holding that classifier's predictions; with
\* clfs=None the names are those of the registry.
PredictTable ==
    /\ (/\ PredictRows.some
        /\ \A n \in Range(PredictAsked) : n \in DOMAIN clfs /\ clfs[n].predict)
            => mlast.err = "none"
    /\ mlast.err = "none" =>
        /\ mlast.ret.n = Len(PredictRows.v)
        /\ mlast.ret.cols = PredictAsked
        /\ Len(mlast.ret.vals) = Len(PredictAsked)
        /\ \A k \in 1..Len(PredictAsked) :
            /\ Len(mlast.ret.vals[k]) = Len(PredictRows.v)
            /\ \A i \in 1..Len(PredictRows.v) :
                mlast.ret.vals[k][i] \in {0, 1}
            /\ mlast.ret.vals[k] = Predict(clfs[PredictAsked[k]], PredictRows.v)
        /\ mlast.args.clfs.tag = "None" =>
            /\ Range(PredictAsked) = DOMAIN clfs
            /\ Len(PredictAsked) = Cardinality(DOMAIN clfs)

\* C11: predict(ds, clfs) returns a table with one row per test input and
\* one column per requested classifier, named by it, in the requested
\* order; clfs=None is every registered classifier and ds=None the cached
\* X_test; the call changes neither the cached arrays nor the registry.
C11_PredictTable ==
    [][mlast'.op = "predict" =>
        /\ UNCHANGED << X_train, y_train, X_test, y_test, feature_labels,
                        target_labels, clfs >>
        /\ PredictTable']_vars

\* C11 witness: predict returned for an explicit ds and the two registered
\* names in an order given by the caller, the cached X_test having another
\* number of rows than ds.
C11_Witness ==
    /\ mlast.op = "predict"
    /\ mlast.err = "none"
    /\ mlast.args.ds.some
    /\ X_test.some
    /\ Len(X_test.v) /= mlast.ret.n
    /\ mlast.ret.cols = << ClfName("p", 0), "a" >>
    /\ mlast.ret.vals[1] /= mlast.ret.vals[2]

\* The names cutoff_predict was asked about, the inputs it was asked about,
\* and the position of the class 'target' among a classifier's
\* probabilities.
CutoffAsked == IF mlast.args.clfs.tag = "None" THEN mlast.args.registered
               ELSE mlast.args.clfs.v

CutoffRows ==
    IF mlast.args.ds.some THEN Some([i \in 1..mlast.args.ds.v.n |-> i]) ELSE X_test

CutoffClass ==
    CHOOSE c \in 1..Len(target_labels.v) : target_labels.v[c] = mlast.args.target

\* cutoff_predict was asked something it can answer: the class is one of
\* the target labels, there are inputs, and every name asked about is
\* registered, once, with an object that has predict_proba.
CutoffAnswerable ==
    /\ target_labels.some
    /\ mlast.args.target \in Range(target_labels.v)
    /\ CutoffRows.some
    /\ CutoffAsked /= << >>
    /\ \A k, j \in 1..Len(CutoffAsked) : CutoffAsked[k] = CutoffAsked[j] => k = j
    /\ \A n \in Range(CutoffAsked) : n \in DOMAIN clfs /\ clfs[n].predict_proba

\* C17: cutoff_predict returns one column per requested classifier,
\* labelled with its name, whose entries come from that classifier's
\* probability for the class 'target' (0 below the cutoff, 1 above it),
\* also when the names asked about are some of the registered ones or are
\* in another order.
C17_CutoffColumnsByName ==
    (mlast.op = "cutoff_predict" /\ CutoffAnswerable) =>
        /\ mlast.err = "none"
        /\ mlast.ret.cols = CutoffAsked
        /\ \A k \in 1..Len(CutoffAsked), i \in 1..Len(CutoffRows.v) :
            LET p == PredictProba(clfs[CutoffAsked[k]], CutoffRows.v)[i][CutoffClass]
            IN /\ p < mlast.args.cutoff => mlast.ret.vals[k][i] = 0
               /\ p > mlast.args.cutoff => mlast.ret.vals[k][i] = One

\* C18: in the table cutoff_predict returns every entry is 0 or 1, and
\* when every registered classifier was asked about, the entry of a
\* classifier and a row is 0 if the probability is below the cutoff and 1
\* otherwise.
C18_CutoffZeroOrOne ==
    (mlast.op = "cutoff_predict" /\ mlast.err = "none") =>
        /\ \A k \in 1..Len(mlast.ret.vals), i \in 1..mlast.ret.n :
            mlast.ret.vals[k][i] \in {0, One}
        /\ mlast.args.clfs.tag = "None" =>
            \A k \in 1..Len(CutoffAsked), i \in 1..Len(CutoffRows.v) :
                LET p == PredictProba(clfs[CutoffAsked[k]], CutoffRows.v)[i][CutoffClass]
                IN mlast.ret.vals[k][i] =
                        IF p < mlast.args.cutoff THEN 0 ELSE One

\* The inputs of a Dataset as arrays: one row per row of the Dataset.
RowsOf(ds) == [i \in 1..ds.n |-> i]

\* What set_test(ds) leaves in the cache.
SetTestPost(ds) ==
    /\ X_test' = Some(RowsOf(ds))
    /\ y_test' = IF ds.target THEN Some(ds.y) ELSE None
    /\ UNCHANGED << X_train, y_train, feature_labels, target_labels, clfs >>

\* What set_train(ds) leaves in the cache; the four arrays are those of ds
\* when the call returns.
SetTrainPost(ds) ==
    /\ UNCHANGED << X_test, y_test, clfs >>
    /\ mlast'.err = "none" =>
        /\ X_train' = Some(RowsOf(ds))
        /\ y_train' = Some(ds.y)
        /\ feature_labels' = Some(ds.features)
        /\ target_labels'.some
        /\ Range(target_labels'.v) = Range(ds.y)
        /\ \A k, j \in 1..Len(target_labels'.v) :
                target_labels'.v[k] = target_labels'.v[j] => k = j

\* What fit() does: nothing to the cache or the registry, and when it
\* returns, one call of fit per registered name, each with the cached
\* X_train and y_train.
FitPost ==
    /\ UNCHANGED << X_train, y_train, X_test, y_test, feature_labels,
                    target_labels, clfs >>
    /\ mlast'.err = "none" =>
        /\ Len(mlast'.ret) = Cardinality(DOMAIN clfs)
        /\ \A n \in DOMAIN clfs :
            Cardinality({k \in 1..Len(mlast'.ret) : mlast'.ret[k].clf = n}) = 1
        /\ \A k \in 1..Len(mlast'.ret) :
            /\ mlast'.ret[k].X = X_train
            /\ mlast'.ret[k].y = y_train

\* C19: set_test sets X_test and y_test (None without a target) and nothing
\* else; set_train sets X_train, y_train, feature_labels and target_labels
\* (the distinct values of the target) and nothing else; fit() calls fit
\* once on every registered classifier with the cached X_train and y_train
\* and changes no cached array.
C19_CacheAndFit ==
    [][/\ mlast'.op = "set_test" => SetTestPost(mlast'.args)
       /\ mlast'.op = "set_train" => SetTrainPost(mlast'.args)
       /\ mlast'.op = "fit" => FitPost
      ]_vars

\* C19 witness: fit returned after calling two registered classifiers with
\* the training arrays, the test arrays being other ones (no y_test).
C19_Witness ==
    /\ mlast.op = "fit"
    /\ mlast.err = "none"
    /\ Len(mlast.ret) = 2
    /\ X_train.some /\ y_train.some
    /\ X_test.some /\ ~ y_test.some
    /\ \A k \in 1..2 : mlast.ret[k].X = X_train /\ mlast.ret[k].y = y_train

\* ------------------------------------------------------------------------
\*                     PROPERTIES: DATASET METADATA
\* ------------------------------------------------------------------------

\* What a.match(b) leaves, from the role rl and type ty a had before: every
\* column of a that b has carries b's role and type, every other column is
\* a Reject of the type it had; the frame and the labels are as before.
MatchPost(b, cols, rl, ty, rl_after, ty_after) ==
    /\ rl_after.index = rl.index
    /\ ty_after.index = ty.index
    /\ \A i \in 1..Len(cols) :
        IF cols[i] \in Range(b.role.index)
        THEN /\ rl_after.vals[i] = At(b.role, cols[i])
             /\ ty_after.vals[i] = At(b.type, cols[i])
        ELSE /\ rl_after.vals[i] = REJECT
             /\ ty_after.vals[i] = ty.vals[i]

\* The Dataset filter(ret_ds=True) returned has the selected columns, each
\* with the role and the type it has in the Dataset filter was called on.
FilterDsKeepsMeta ==
    (last.op = "filter" /\ last.args.mode = "ds" /\ last.err = "none") =>
        /\ last.ret.role.index = last.ret.frame.cols
        /\ last.ret.type.index = last.ret.frame.cols
        /\ last.ret.frame.cols = Expected(last.args.role, last.args.type)
        /\ \A k \in 1..Len(last.ret.frame.cols) :
            /\ last.ret.role.vals[k] = At(role, last.ret.frame.cols[k])
            /\ last.ret.type.vals[k] = At(type, last.ret.frame.cols[k])

\* C12: after a.match(b) every column of a that is a column of b has b's
\* role and type, every other column of a is a Reject and keeps its type,
\* and match does not raise for a column that b lacks; the Dataset
\* returned by filter(ret_ds=True) has, for every column, the role and type
\* of the source Dataset.
C12_MatchCopiesMeta ==
    [][/\ last'.op = "match" =>
            /\ last'.err = "none"
            /\ UNCHANGED << frame, columns >>
            /\ MatchPost(last'.args, columns, role, type, role', type')
       /\ FilterDsKeepsMeta']_vars

\* C12 witness: filter(ret_ds=True) returned a Dataset with a column whose
\* role is not the one set_frame infers for it (the source was matched to
\* another Dataset before), next to a column b had.
C12_Witness ==
    /\ last.op = "filter"
    /\ last.args.mode = "ds"
    /\ last.err = "none"
    /\ Len(last.ret.frame.cols) = 2
    /\ \E k \in 1..2 :
        /\ last.ret.role.vals[k] = REJECT
        /\ SetFrameRole(last.ret.frame).vals[k] = INPUT
    /\ \E k \in 1..2 : last.ret.role.vals[k] \in {ID, TARGET}

\* The labels fillna was asked to fill.
FillRequested(a, cols) == IF a.cols.tag = "None" THEN Range(cols) ELSE Range(a.cols.v)

\* v is the mean of the present cells of a column (nan when there are none).
IsMean(v, cells) ==
    IF Present(cells) = {} THEN v = NA
    ELSE v * Cardinality(Present(cells)) = SumCells(cells, Present(cells))

\* v is a most frequent present value of a column.
IsMode(v, cells) ==
    /\ \E r \in Present(cells) : cells[r] = v
    /\ \A r \in Present(cells) : Count(cells, cells[r]) <= Count(cells, v)

\* C13: fillna with method 'mean' or 'mode' changes only requested columns
\* whose role is Input, and in them only missing cells: when it returns,
\* the missing cells of a Number column hold the column's mean and those
\* of a Category column its most frequent value; columns that are ID,
\* Target or Reject, columns not requested, present cells, and every role
\* and type are as before.
C13_FillnaOnlyInputs ==
    [][(last'.op = "fillna" /\ last'.args.method \in {"mean", "mode"}) =>
        /\ UNCHANGED << columns, role, type >>
        /\ frame'.cols = frame.cols
        /\ \A i \in 1..Len(frame.cols) :
            IF ~(frame.cols[i] \in FillRequested(last'.args, columns)
                 /\ role.vals[i] = INPUT)
            THEN frame'.vals[i] = frame.vals[i]
            ELSE \A r \in 1..Len(frame.vals[i]) :
                    IF frame.vals[i][r] /= NA
                    THEN frame'.vals[i][r] = frame.vals[i][r]
                    ELSE last'.err = "none" =>
                            IF type.vals[i] = NUMBER
                            THEN IsMean(frame'.vals[i][r], frame.vals[i])
                            ELSE IsMode(frame'.vals[i][r], frame.vals[i])
      ]_vars

\* C13 witness: fillna returned on a Dataset with an Input Number column
\* whose missing cell now holds the mean of two different cells, and a
\* column of another role that still misses a cell.
C13_Witness ==
    /\ last.op = "fillna"
    /\ last.err = "none"
    /\ \E i, j \in 1..Len(frame.cols) :
        /\ role.vals[i] = INPUT
        /\ type.vals[i] = NUMBER
        /\ Missing(frame.vals[i]) = 0
        /\ 2 * frame.vals[i][1] = frame.vals[i][2] + frame.vals[i][3]
        /\ frame.vals[i][2] /= frame.vals[i][3]
        /\ role.vals[j] /= INPUT
        /\ Missing(frame.vals[j]) > 0

\* A name with every ' ', '.' and '-' taken out, and nothing else changed.
WithoutSymbols(name) == SelectSeq(name, LAMBDA c : c \notin {" ", ".", "-"})

\* C14: when fix_names returns, every column name is the old one without
\* ' ', '.' and '-', the number of columns is unchanged, every position
\* keeps its role and type, the frame's columns, self.columns, role.index
\* and type.index are one sequence of names, and two columns that had
\* different names still have different names.
C14_FixNamesKeepsColumnsApart ==
    [][(last'.op = "fix_names" /\ last'.err = "none") =>
        /\ Len(frame'.cols) = Len(frame.cols)
        /\ \A i \in 1..Len(frame.cols) :
            frame'.cols[i] = WithoutSymbols(frame.cols[i])
        /\ role'.vals = role.vals
        /\ type'.vals = type.vals
        /\ columns' = frame'.cols
        /\ role'.index = frame'.cols
        /\ type'.index = frame'.cols
        /\ \A i, j \in 1..Len(frame.cols) :
            frame.cols[i] /= frame.cols[j] => frame'.cols[i] /= frame'.cols[j]
      ]_vars

\* The Datasets a call of join was given, in join order.
JoinSources(call) ==
    IF call.op = "join" THEN call.args
    ELSE << call.args.ds1, call.args.ds2 >>
            \o (IF call.args.given THEN call.args.others ELSE << >>)

\* The sources that have a column of that name.
Holders(srcs, name) == {k \in 1..Len(srcs) : name \in Range(srcs[k].columns)}

Last(S) == CHOOSE k \in S : \A j \in S : j <= k

\* C15: a.join(b) and join(ds1, ds2, others) give, for every column that
\* came from a Dataset they were given, the role and type the column has
\* in that Dataset at the time of the call; a name that several of them
\* have gets the metadata of the last one in join order; the Dataset of the
\* call is left unchanged.
C15_JoinKeepsSourceMeta ==
    [][last'.op \in {"join", "join_fn"} =>
        LET srcs == JoinSources(last')
            ans == IF last'.op = "join" THEN last'.ret ELSE last'.ret.ds
        IN /\ UNCHANGED dsvars
           /\ (\E k, j \in 1..Len(srcs) :
                    k /= j /\ Range(srcs[k].columns) \cap Range(srcs[j].columns) /= {})
                => last'.err = "none"
           /\ last'.err = "none" =>
                \A i \in 1..Len(ans.columns) :
                    LET name == ans.columns[i]
                        h == Holders(srcs, name)
                    IN h /= {} =>
                        /\ ans.role.vals[i] = At(srcs[Last(h)].role, name)
                        /\ ans.type.vals[i] = At(srcs[Last(h)].type, name)
      ]_vars

\* C16: what join(ds1, ds2) without 'others' returns or raises depends on
\* ds1 and ds2 only, whatever calls came before, and a list passed as
\* 'others' is the same list after the call.
C16_JoinDependsOnArgsOnly ==
    [][last'.op = "join_fn" =>
        /\ ~ last'.args.given =>
            LET two == JoinResult(<< last'.args.ds1, last'.args.ds2 >>)
            IN /\ last'.err = two.err
               /\ last'.ret.ds = two.ds
        /\ last'.args.given => last'.ret.others = last'.args.others
      ]_vars

====
